---- MODULE Spec2Model ----
(***************************************************************************)
(* The Sec-WebSocket-Key header type of rust-websocket                     *)
(* (src/header/key.rs): a 16-byte payload, parsed from and serialized to   *)
(* standard padded base64, and registered as a hyper header.               *)
(*                                                                         *)
(* Strings and raw header segments are sequences of bytes (0..255), as a   *)
(* Rust &str is: a byte sequence that is valid UTF-8.  The calls into the  *)
(* base64 crate (STANDARD configuration), into hyper's header parsing and  *)
(* into std::str::from_utf8 are modelled by what those functions compute.  *)
(***************************************************************************)
EXTENDS Integers, Sequences, FiniteSets, TLC

VARIABLES key, origin, input, out, ret

vars == <<key, origin, input, out, ret>>

(***************************************************************************)
(* Bounds of the model.                                                    *)
(***************************************************************************)
\* how many of ByteSamples the payload bytes are drawn from
NumBytes == 3
\* how many of OddSamples are substituted into an encoded key
NumOdd == 6
\* the longest list of raw segments handed to parse_header
MaxSegments == 2
\* how many bytes beyond 16 an over-long encoded payload carries
MaxExtra == 2

(***************************************************************************)
(* The payload type: pub struct WebSocketKey(pub [u8; 16]).                *)
(***************************************************************************)
KeyLen == 16

Byte == 0 .. 255

WebSocketKey == [1 .. KeyLen -> Byte]

\* #[derive(Default)]: the all-zero payload
Default == [i \in 1 .. KeyLen |-> 0]

(***************************************************************************)
(* Bit operations on bytes.                                                *)
(***************************************************************************)
Shl(x, n) == x * (2 ^ n)

Shr(x, n) == x \div (2 ^ n)

Low(x, n) == x % (2 ^ n)

(***************************************************************************)
(* base64, STANDARD configuration: the alphabet A-Z a-z 0-9 + /, padded    *)
(* with '=' on encoding.                                                   *)
(***************************************************************************)
STANDARD_ALPHABET ==
    <<65, 66, 67, 68, 69, 70, 71, 72, 73, 74, 75, 76, 77, 78, 79, 80, 81, 82,
      83, 84, 85, 86, 87, 88, 89, 90, 97, 98, 99, 100, 101, 102, 103, 104,
      105, 106, 107, 108, 109, 110, 111, 112, 113, 114, 115, 116, 117, 118,
      119, 120, 121, 122, 48, 49, 50, 51, 52, 53, 54, 55, 56, 57, 43, 47>>

AlphabetSet == {STANDARD_ALPHABET[i] : i \in 1 .. Len(STANDARD_ALPHABET)}

\* '='
PAD_BYTE == 61

INVALID_VALUE == 255

\* the 6-bit value of a symbol, or INVALID_VALUE
DecodeTable(b) ==
    IF b >= 65 /\ b <= 90 THEN b - 65
    ELSE IF b >= 97 /\ b <= 122 THEN b - 71
    ELSE IF b >= 48 /\ b <= 57 THEN b + 4
    ELSE IF b = 43 THEN 62
    ELSE IF b = 47 THEN 63
    ELSE INVALID_VALUE

Symbol(v) == STANDARD_ALPHABET[v + 1]

RECURSIVE Base64Encode(_)
\* base64::encode: three bytes to four symbols, the last group padded
Base64Encode(bs) ==
    IF Len(bs) = 0 THEN <<>>
    ELSE IF Len(bs) = 1
    THEN <<Symbol(Shr(bs[1], 2)), Symbol(Shl(Low(bs[1], 2), 4)),
           PAD_BYTE, PAD_BYTE>>
    ELSE IF Len(bs) = 2
    THEN <<Symbol(Shr(bs[1], 2)),
           Symbol(Shl(Low(bs[1], 2), 4) + Shr(bs[2], 4)),
           Symbol(Shl(Low(bs[2], 4), 2)), PAD_BYTE>>
    ELSE <<Symbol(Shr(bs[1], 2)),
           Symbol(Shl(Low(bs[1], 2), 4) + Shr(bs[2], 4)),
           Symbol(Shl(Low(bs[2], 4), 2) + Shr(bs[3], 6)),
           Symbol(Low(bs[3], 6))>>
         \o Base64Encode(SubSeq(bs, 4, Len(bs)))

RECURSIVE DecodeMorsels(_)
\* the bytes that a sequence of 6-bit values carries; 2, 3 or 4 values in
\* the last group give 1, 2 or 3 bytes
DecodeMorsels(ms) ==
    IF Len(ms) < 2 THEN <<>>
    ELSE IF Len(ms) = 2
    THEN <<Shl(ms[1], 2) + Shr(ms[2], 4)>>
    ELSE IF Len(ms) = 3
    THEN <<Shl(ms[1], 2) + Shr(ms[2], 4),
           Shl(Low(ms[2], 4), 4) + Shr(ms[3], 2)>>
    ELSE <<Shl(ms[1], 2) + Shr(ms[2], 4),
           Shl(Low(ms[2], 4), 4) + Shr(ms[3], 2),
           Shl(Low(ms[3], 2), 6) + ms[4]>>
         \o DecodeMorsels(SubSeq(ms, 5, Len(ms)))

\* the bits of the last symbol that no output byte takes
TrailingBits(ms) ==
    IF Len(ms) % 4 = 2 THEN Low(ms[Len(ms)], 4)
    ELSE IF Len(ms) % 4 = 3 THEN Low(ms[Len(ms)], 2)
    ELSE 0

DecodeOk(bs) == [ok |-> TRUE, bytes |-> bs]

DecodeErr == [ok |-> FALSE, bytes |-> <<>>]

\* base64::decode. The input is read in chunks of 8; the last chunk (the
\* leftover, 1 to 8 bytes) is the only place '=' may stand, in the third or
\* fourth place of its quad and followed by '=' only. The padding may be
\* absent; a length of 1 mod 4, a byte outside the alphabet and a last
\* symbol with bits set beyond the last byte are errors.
Base64Decode(s) ==
    LET n == Len(s)
        start == IF n = 0 THEN 0
                 ELSE IF n % 8 = 0 THEN n - 8 ELSE n - (n % 8)
        pads == {i \in start + 1 .. n : s[i] = PAD_BYTE}
        nsym == IF pads = {} THEN n
                ELSE (CHOOSE i \in pads : \A j \in pads : i <= j) - 1
        morsels == [i \in 1 .. nsym |-> DecodeTable(s[i])]
    IN  IF n % 4 = 1 THEN DecodeErr
        ELSE IF \E i \in 1 .. start : DecodeTable(s[i]) = INVALID_VALUE
        THEN DecodeErr
        ELSE IF \E i \in pads : (i - start - 1) % 4 < 2 THEN DecodeErr
        ELSE IF \E i \in pads : \E j \in i + 1 .. n : s[j] # PAD_BYTE
        THEN DecodeErr
        ELSE IF \E i \in start + 1 .. nsym : morsels[i] = INVALID_VALUE
        THEN DecodeErr
        ELSE IF TrailingBits(morsels) # 0 THEN DecodeErr
        ELSE DecodeOk(DecodeMorsels(morsels))

(***************************************************************************)
(* std::str::from_utf8: whether a byte sequence is well-formed UTF-8.      *)
(***************************************************************************)
IsCont(b) == b >= 128 /\ b <= 191

RECURSIVE IsUtf8(_)
IsUtf8(bs) ==
    LET n == Len(bs)
        b == bs[1]
    IN  IF n = 0 THEN TRUE
        ELSE IF b < 128 THEN IsUtf8(SubSeq(bs, 2, n))
        ELSE IF b >= 194 /\ b <= 223
        THEN n >= 2 /\ IsCont(bs[2]) /\ IsUtf8(SubSeq(bs, 3, n))
        ELSE IF b >= 224 /\ b <= 239
        THEN /\ n >= 3
             /\ IsCont(bs[2])
             /\ IsCont(bs[3])
             /\ (b = 224 => bs[2] >= 160)
             /\ (b = 237 => bs[2] <= 159)
             /\ IsUtf8(SubSeq(bs, 4, n))
        ELSE IF b >= 240 /\ b <= 244
        THEN /\ n >= 4
             /\ IsCont(bs[2])
             /\ IsCont(bs[3])
             /\ IsCont(bs[4])
             /\ (b = 240 => bs[2] >= 144)
             /\ (b = 244 => bs[2] <= 143)
             /\ IsUtf8(SubSeq(bs, 5, n))
        ELSE FALSE

(***************************************************************************)
(* Results: WebSocketResult<WebSocketKey> and hyper::Result<WebSocketKey>, *)
(* and the unwinding of a panic.                                           *)
(***************************************************************************)
NoKey == <<>>

Ok(k) == [tag |-> "Ok", key |-> k, err |-> "", reason |-> ""]

ProtocolError(r) ==
    [tag |-> "Err", key |-> NoKey, err |-> "ProtocolError", reason |-> r]

HyperError(e) == [tag |-> "Err", key |-> NoKey, err |-> e, reason |-> ""]

Panic == [tag |-> "Panic", key |-> NoKey, err |-> "", reason |-> ""]

\* before any call has returned
NoResult == [tag |-> "None", key |-> NoKey, err |-> "", reason |-> ""]

(***************************************************************************)
(* impl FromStr for WebSocketKey                                           *)
(***************************************************************************)
\* array[..16].clone_from_slice(&vec[..16]): the range check of vec[..16]
\* panics on a shorter vec
CopyKey(vec) ==
    IF Len(vec) < KeyLen THEN Panic
    ELSE Ok([i \in 1 .. KeyLen |-> vec[i]])

\* from_str copying one byte too few: array[..15].clone_from_slice(&vec[..15])
from_str_short_copy(s) ==
    LET vec == Base64Decode(s)
    IN  IF vec.ok
        THEN IF Len(vec.bytes) # KeyLen
             THEN ProtocolError("Sec-WebSocket-Key must be 16 bytes")
             ELSE Ok([i \in 1 .. KeyLen |->
                        IF i < KeyLen THEN vec.bytes[i] ELSE 0])
        ELSE ProtocolError("Invalid Sec-WebSocket-Accept")

\* from_str with the gate vec.len() < 16 in place of vec.len() != 16
from_str_lower_gate(s) ==
    LET vec == Base64Decode(s)
    IN  IF vec.ok
        THEN IF Len(vec.bytes) < KeyLen
             THEN ProtocolError("Sec-WebSocket-Key must be 16 bytes")
             ELSE CopyKey(vec.bytes)
        ELSE ProtocolError("Invalid Sec-WebSocket-Accept")

\* from_str with the gate vec.len() > 16 in place of vec.len() != 16
from_str_upper_gate(s) ==
    LET vec == Base64Decode(s)
    IN  IF vec.ok
        THEN IF Len(vec.bytes) > KeyLen
             THEN ProtocolError("Sec-WebSocket-Key must be 16 bytes")
             ELSE CopyKey(vec.bytes)
        ELSE ProtocolError("Invalid Sec-WebSocket-Accept")

IsSpace(b) == b \in {9, 10, 13, 32}

RECURSIVE Trim(_)
Trim(s) ==
    IF Len(s) = 0 THEN s
    ELSE IF IsSpace(s[1]) THEN Trim(SubSeq(s, 2, Len(s)))
    ELSE IF IsSpace(s[Len(s)]) THEN Trim(SubSeq(s, 1, Len(s) - 1))
    ELSE s

\* from_str decoding key.trim() in place of key
from_str_trim(s) ==
    LET vec == Base64Decode(Trim(s))
    IN  IF vec.ok
        THEN IF Len(vec.bytes) # KeyLen
             THEN ProtocolError("Sec-WebSocket-Key must be 16 bytes")
             ELSE CopyKey(vec.bytes)
        ELSE ProtocolError("Invalid Sec-WebSocket-Accept")

from_str(s) ==
    LET vec == Base64Decode(s)
    IN  IF vec.ok
        THEN IF Len(vec.bytes) # KeyLen
             THEN ProtocolError("Sec-WebSocket-Key must be 16 bytes")
             ELSE CopyKey(vec.bytes)
        ELSE ProtocolError("Invalid Sec-WebSocket-Accept")

(***************************************************************************)
(* impl WebSocketKey                                                       *)
(***************************************************************************)
\* serialize through base64's URL_SAFE configuration: '-' and '_' for
\* '+' and '/'
serialize_url_safe(k) ==
    LET c == Base64Encode(k)
    IN  [i \in 1 .. Len(c) |->
           IF c[i] = 43 THEN 45 ELSE IF c[i] = 47 THEN 95 ELSE c[i]]

\* serialize through base64's STANDARD_NO_PAD configuration
serialize_no_pad(k) ==
    LET c == Base64Encode(k)
    IN  SelectSeq(c, LAMBDA b : b # PAD_BYTE)

serialize(k) == Base64Encode(k)

(***************************************************************************)
(* impl Debug / Header / HeaderFormat for WebSocketKey                     *)
(***************************************************************************)
\* "WebSocketKey(" and ")"
fmt(k) ==
    <<87, 101, 98, 83, 111, 99, 107, 101, 116, 75, 101, 121, 40>>
    \o serialize(k) \o <<41>>

\* "Sec-WebSocket-Key"
header_name ==
    <<83, 101, 99, 45, 87, 101, 98, 83, 111, 99, 107, 101, 116, 45, 75, 101,
      121>>

\* hyper::header::parsing::from_one_raw_str: exactly one raw segment, read
\* as UTF-8 and handed to from_str, whose error becomes hyper's Header error
from_one_raw_str(raw) ==
    IF Len(raw) # 1 \/ raw[1] = <<>> THEN HyperError("Header")
    ELSE IF ~IsUtf8(raw[1]) THEN HyperError("Utf8")
    ELSE LET r == from_str(raw[1])
         IN  IF r.tag = "Err" THEN HyperError("Header") ELSE r

\* parse_header reading the first segment, however many there are
parse_header_first(raw) ==
    IF Len(raw) = 0 THEN HyperError("Header")
    ELSE from_one_raw_str(<<raw[1]>>)

parse_header(raw) == from_one_raw_str(raw)

\* fmt_header writing the value between double quotes
fmt_header_quoted(k) == <<34>> \o serialize(k) \o <<34>>

\* fmt_header writing the Debug form: write!(fmt, "{:?}", self)
fmt_header_debug(k) == fmt(k)

fmt_header(k) == serialize(k)

\* hyper's Headers with the key as its only header, to_string():
\* the name, ": ", the value as fmt_header writes it, CR LF
headers_to_string(k) ==
    header_name \o <<58, 32>> \o fmt_header(k) \o <<13, 10>>

(***************************************************************************)
(* The inputs the operations are applied to.                               *)
(***************************************************************************)
ByteSamples == <<65, 255, 0, 251, 128, 62>>

SampleBytes == {ByteSamples[i] : i \in 1 .. NumBytes}

\* the payload of tests::test_header_key
KeyOfA == [i \in 1 .. KeyLen |-> 65]

\* "a reall good key", the payload tests::test_header_from_str parses
GoodKey ==
    <<97, 32, 114, 101, 97, 108, 108, 32, 103, 111, 111, 100, 32, 107, 101,
      121>>

\* the payloads a caller may hold: the default, what rand::random() may
\* return to new(), and what a write to the public field leaves
Keys ==
    {Default, KeyOfA, GoodKey}
    \cup {[i \in 1 .. KeyLen |-> b] : b \in SampleBytes}
    \cup {[[i \in 1 .. KeyLen |-> b] EXCEPT ![p] = c] :
            b \in SampleBytes, c \in SampleBytes, p \in {1, KeyLen}}

\* '-', '_', ' ', '!', '=', 'B', 0xFF, 'g', TAB
OddSamples == <<45, 95, 32, 33, 61, 66, 255, 103, 9>>

OddBytes == {OddSamples[i] : i \in 1 .. NumOdd}

\* the strings of tests::test_header_from_str and "!!!not base64!!!"
TestStrings ==
    { <<89, 83, 66, 121, 90, 87, 70, 115, 98, 67, 66, 110, 98, 50, 57, 107,
        73, 71, 116, 108, 101, 81, 61, 61>>,
      <<89, 83, 66, 122, 97, 71, 57, 121, 100, 67, 66, 114, 90, 88, 107, 61>>,
      <<89, 83, 66, 50, 90, 88, 74, 53, 73, 72, 90, 108, 99, 110, 107, 103,
        98, 71, 57, 117, 90, 121, 66, 114, 90, 88, 107, 61>>,
      <<33, 33, 33, 110, 111, 116, 32, 98, 97, 115, 101, 54, 52, 33, 33, 33>> }

\* texts near the encoding of k: the padding dropped, a byte substituted,
\* whitespace or a symbol added, a two-byte UTF-8 character in front, and
\* the encodings of shorter and longer payloads
InputsNear(k) ==
    LET c == Base64Encode(k)
        n == Len(c)
    IN  {SubSeq(c, 1, n - 2), SubSeq(c, 1, n - 1)}
        \cup {[c EXCEPT ![p] = b] : p \in {1, n - 2, n}, b \in OddBytes}
        \cup {<<32>> \o c, c \o <<32>>, c \o <<13, 10>>, c \o <<65>>,
              c \o <<65, 65>>, <<195, 169>> \o SubSeq(c, 3, n)}
        \cup {Base64Encode(SubSeq(k, 1, m)) : m \in 0 .. KeyLen - 1}
        \cup {Base64Encode(k \o SubSeq(k, 1, m)) : m \in 1 .. MaxExtra}
        \cup TestStrings

\* the lists of raw segments a repeated header line gives: no segment, or
\* up to MaxSegments occurrences of one of the segments
RawLists(segs) ==
    {<<>>} \cup {[i \in 1 .. m |-> s] : s \in segs, m \in 1 .. MaxSegments}

NoText == <<>>

(***************************************************************************)
(* The state: the key the caller holds, the text it was parsed from (none   *)
(* for a key that was not parsed), the text the caller received, the last  *)
(* text written (with the key it was written from and that key's text),    *)
(* and the last result returned since that text was written.               *)
(***************************************************************************)
NoCall == [op |-> "none", arg |-> NoText, res |-> NoResult]

Init ==
    /\ key \in Keys
    /\ origin = NoText
    /\ input \in InputsNear(key)
    /\ out = [op |-> "none", of |-> NoKey, from |-> NoText, text |-> NoText]
    /\ ret = NoCall

\* let s = key.serialize()
Serialize ==
    /\ out' = [op |-> "serialize", of |-> key, from |-> origin,
               text |-> serialize(key)]
    /\ ret' = NoCall
    /\ UNCHANGED <<key, origin, input>>

\* format!("{}", key) through HeaderFormat
FmtHeader ==
    /\ out' = [op |-> "fmt_header", of |-> key, from |-> origin,
               text |-> fmt_header(key)]
    /\ ret' = NoCall
    /\ UNCHANGED <<key, origin, input>>

\* format!("{:?}", key)
DebugFmt ==
    /\ out' = [op |-> "fmt", of |-> key, from |-> origin,
               text |-> fmt(key)]
    /\ ret' = NoCall
    /\ UNCHANGED <<key, origin, input>>

\* headers.set(key); headers.to_string()
HeadersToString ==
    /\ out' = [op |-> "to_string", of |-> key, from |-> origin,
               text |-> headers_to_string(key)]
    /\ ret' = NoCall
    /\ UNCHANGED <<key, origin, input>>

\* the key the caller holds after a call returned res
Held(res, s) == IF res.tag = "Ok" THEN <<res.key, s>> ELSE <<key, origin>>

\* WebSocketKey::from_str(s), s a &str: the text received or the last text
\* written
FromStr ==
    \E s \in {input, out.text} :
        /\ IsUtf8(s)
        /\ ret' = [op |-> "from_str", arg |-> s, res |-> from_str(s)]
        /\ key' = Held(ret'.res, s)[1]
        /\ origin' = Held(ret'.res, s)[2]
        /\ UNCHANGED <<input, out>>

\* Header::parse_header(&raw[..]), raw the segments of the header's lines
ParseHeader ==
    \E raw \in RawLists({input, out.text}) :
        /\ ret' = [op |-> "parse_header", arg |-> raw, res |-> parse_header(raw)]
        /\ key' = Held(ret'.res, IF Len(raw) = 1 THEN raw[1] ELSE NoText)[1]
        /\ origin' = Held(ret'.res, IF Len(raw) = 1 THEN raw[1] ELSE NoText)[2]
        /\ UNCHANGED <<input, out>>

Next ==
    \/ Serialize
    \/ FmtHeader
    \/ DebugFmt
    \/ HeadersToString
    \/ FromStr
    \/ ParseHeader

Spec == Init /\ [][Next]_vars

(***************************************************************************)
(* The properties.                                                         *)
(***************************************************************************)
\* what base64::decode makes of the argument of the last call
Decoded == Base64Decode(ret.arg)

MustBe16 == ProtocolError("Sec-WebSocket-Key must be 16 bytes")

\* C1: Round trip. When from_str is given the text that serialize wrote for
\* a key v, it succeeds and returns a key whose payload equals v.
C1_RoundTrip ==
    (ret.op = "from_str" /\ out.op = "serialize" /\ ret.arg = out.text)
        => ret.res = Ok(out.of)

\* a key of bytes 65, 255 and 0 whose serialization was parsed back
C1_Witness ==
    /\ ret.op = "from_str"
    /\ out.op = "serialize"
    /\ ret.arg = out.text
    /\ out.of[1] = 255
    /\ out.of[KeyLen] = 65
    /\ ret.res.tag = "Ok"

\* C2: Length gate. When the input of from_str decodes to a number of
\* bytes other than 16, the result is the ProtocolError with reason
\* "Sec-WebSocket-Key must be 16 bytes", and no key.
C2_LengthGate ==
    (ret.op = "from_str" /\ Decoded.ok /\ Len(Decoded.bytes) # KeyLen)
        => ret.res = MustBe16

\* an input that decodes to more than 16 bytes was refused
C2_Witness ==
    /\ ret.op = "from_str"
    /\ Decoded.ok
    /\ Len(Decoded.bytes) > KeyLen
    /\ ret.res = MustBe16

\* C3: When the base64 decoding of the input of from_str fails, the result
\* is the ProtocolError with reason "Invalid Sec-WebSocket-Key".
C3_InvalidKeyReason ==
    (ret.op = "from_str" /\ ~Decoded.ok)
        => ret.res = ProtocolError("Invalid Sec-WebSocket-Key")

\* "Sec-WebSocket-Key: "
HeaderPrefix ==
    <<83, 101, 99, 45, 87, 101, 98, 83, 111, 99, 107, 101, 116, 45, 75, 101,
      121, 58, 32>>

\* "Sec-WebSocket-Key: QUFBQUFBQUFBQUFBQUFBQQ==\r\n"
HeaderLineOfA ==
    <<83, 101, 99, 45, 87, 101, 98, 83, 111, 99, 107, 101, 116, 45, 75, 101,
      121, 58, 32, 81, 85, 70, 66, 81, 85, 70, 66, 81, 85, 70, 66, 81, 85,
      70, 66, 81, 85, 70, 66, 81, 81, 61, 61, 13, 10>>

\* C4: Header emission. A header collection holding only the key k
\* serializes to "Sec-WebSocket-Key: ", then k.serialize(), then CR LF and
\* nothing else; for the payload [0x41; 16] that is
\* "Sec-WebSocket-Key: QUFBQUFBQUFBQUFBQUFBQQ==\r\n".
C4_HeaderEmission ==
    out.op = "to_string"
        => /\ out.text = HeaderPrefix \o serialize(out.of) \o <<13, 10>>
           /\ (out.of = KeyOfA => out.text = HeaderLineOfA)

\* the collection holding the key [0x41; 16] was serialized
C4_Witness == out.op = "to_string" /\ out.of = KeyOfA

\* C5: Segment count. parse_header returns a key exactly when there is one
\* raw segment, it is valid UTF-8 and from_str accepts it, and the key is
\* the one from_str returns; with no segment or with two or more it
\* returns hyper's Header error and no key.
C5_SegmentCount ==
    ret.op = "parse_header"
        => LET raw == ret.arg
               one == /\ Len(raw) = 1
                      /\ IsUtf8(raw[1])
                      /\ from_str(raw[1]).tag = "Ok"
           IN  /\ ret.res.tag = "Ok" <=> one
               /\ one => ret.res = from_str(raw[1])
               /\ Len(raw) # 1 => ret.res = HyperError("Header")

\* two segments, each one a valid key, were refused
C5_Witness ==
    /\ ret.op = "parse_header"
    /\ Len(ret.arg) = 2
    /\ from_str(ret.arg[1]).tag = "Ok"
    /\ from_str(ret.arg[2]).tag = "Ok"
    /\ ret.res = HyperError("Header")

\* a byte that is neither a symbol of the standard alphabet nor a '=' of
\* the run of '=' that ends the text
HasForeignByte(s) ==
    \E i \in 1 .. Len(s) :
        /\ s[i] \notin AlphabetSet
        /\ ~(s[i] = PAD_BYTE /\ \A j \in i .. Len(s) : s[j] = PAD_BYTE)

\* C6: Reject non-base64. When the input of from_str holds a byte outside
\* the standard alphabet that is not trailing padding ('-', '_' and
\* leading or trailing whitespace included), from_str fails and returns no
\* key.
C6_RejectNonBase64 ==
    (ret.op = "from_str" /\ HasForeignByte(ret.arg))
        => ret.res.tag = "Err" /\ ret.res.key = NoKey

\* a valid key followed by one space was refused
C6_Witness ==
    /\ ret.op = "from_str"
    /\ Len(ret.arg) > 1
    /\ ret.arg[Len(ret.arg)] = 32
    /\ from_str(SubSeq(ret.arg, 1, Len(ret.arg) - 1)).tag = "Ok"
    /\ ret.res.tag = "Err"

\* C7: Canonical form. The text serialize writes is 24 bytes long: 22
\* symbols of the standard alphabet, then "==".
C7_CanonicalForm ==
    out.op = "serialize"
        => /\ Len(out.text) = 24
           /\ \A i \in 1 .. 22 : out.text[i] \in AlphabetSet
           /\ out.text[23] = PAD_BYTE
           /\ out.text[24] = PAD_BYTE

\* a payload written through the public field (its last byte differs from
\* the others) was serialized
C7_Witness ==
    /\ out.op = "serialize"
    /\ out.of[KeyLen] # out.of[1]
    /\ out.of[1] = out.of[2]

\* C8: Accepting parse. When the input of from_str decodes to exactly 16
\* bytes, from_str returns Ok and the payload is those 16 bytes in order.
C8_AcceptingParse ==
    (ret.op = "from_str" /\ Decoded.ok /\ Len(Decoded.bytes) = KeyLen)
        => ret.res = Ok(Decoded.bytes)

\* "YSByZWFsbCBnb29kIGtleQ==" was parsed to "a reall good key"
C8_Witness ==
    /\ ret.op = "from_str"
    /\ ret.arg =
         <<89, 83, 66, 121, 90, 87, 70, 115, 98, 67, 66, 110, 98, 50, 57,
           107, 73, 71, 116, 108, 101, 81, 61, 61>>
    /\ ret.res.tag = "Ok"
    /\ ret.res.key = GoodKey

\* C9: Failures are values. from_str ends with Ok and a 16-byte key or
\* with Err and a ProtocolError, never with a panic: the copy of 16 bytes
\* is reached only with 16 decoded bytes. Every text written is the whole
\* text of its operation.
C9_NoPanic ==
    /\ ret.op = "from_str"
         => \/ ret.res.tag = "Ok" /\ ret.res.key \in WebSocketKey
            \/ ret.res.tag = "Err" /\ ret.res.err = "ProtocolError"
    /\ ret.op = "parse_header" => ret.res.tag \in {"Ok", "Err"}
    /\ out.op \in {"serialize", "fmt_header"} => Len(out.text) = 24
    /\ out.op = "fmt" => Len(out.text) = 24 + 14

\* an input that decodes to fewer than 16 bytes came back as an error
C9_Witness ==
    /\ ret.op = "from_str"
    /\ Decoded.ok
    /\ Len(Decoded.bytes) < KeyLen
    /\ Len(Decoded.bytes) > 0
    /\ ret.res.tag = "Err"

\* C10: Header round trip. When parse_header is given, as its single raw
\* segment, the text fmt_header wrote for a key k, it returns k; this holds
\* as well for a key k that was itself parsed from a segment, whatever the
\* encoding of that segment.
C10_HeaderRoundTrip ==
    (ret.op = "parse_header" /\ out.op = "fmt_header" /\ ret.arg = <<out.text>>)
        => ret.res = Ok(out.of)

\* a key parsed from a text that is not its canonical encoding was
\* formatted and parsed back to the same key
C10_Witness ==
    /\ ret.op = "parse_header"
    /\ out.op = "fmt_header"
    /\ ret.arg = <<out.text>>
    /\ out.from # NoText
    /\ out.from # out.text
    /\ ret.res = Ok(out.of)

====
